---- MODULE Spec2Model ----
(***************************************************************************)
(* radcache (src/cache.go): a typed accessor over a go-redis client.       *)
(*                                                                         *)
(* Strings (prefixes, keys, wire texts) are sequences of one-character     *)
(* strings, so that concatenation, parsing and the string-prefix relation  *)
(* are computed and not assumed.  Go values are records [t, n, s]: t the   *)
(* Go type, n the number (a float is held in tenths), s the string.        *)
(***************************************************************************)
EXTENDS Integers, Sequences, FiniteSets, TLC

VARIABLES
    Options,   \* rad.Options: [Prefix] per handle
    Db,        \* rad.Db # nil, per handle (both handles share the one client)
    Logger,    \* rad.Logger # nil, per handle
    store,     \* the redis server behind the client: physical key -> [val, ttl]
    proc,      \* "running", "fatal" (log.Fatal: os.Exit(1)) or "panic" (nil dereference)
    last,      \* the last call: its arguments, the command it sent, what it returned
    hist       \* history: physical key -> the last write the server applied to it

vars == <<Options, Db, Logger, store, proc, last, hist>>

\* ------------------------------------------------------------------ bounds

\* Longest batch DelAny is called with.
MaxBatch == 2
\* Longest positive time-to-live, in clock ticks.
MaxTtl == 1

\* ----------------------------------------------------------------- strings

Str_rad == <<"r", "a", "d", "_">>
Str_radx == <<"r", "a", "d", "_", "x">>
Str_t == <<"t", "_">>
Str_k == <<"k">>
Str_xk == <<"x", "k">>
Str_hi == <<"h", "i">>

Handles == {"A", "B"}
\* Logical keys the callers use.
Keys == {Str_k, Str_xk}
\* Prefixes New(opt) is called with: one unrelated to NewDefault's, one extending it.
Prefixes == {Str_t, Str_radx}

IsPrefixOf(p, q) == Len(p) <= Len(q) /\ SubSeq(q, 1, Len(p)) = p

Digits == <<"0", "1", "2", "3", "4", "5", "6", "7", "8", "9">>
IsDigit(c) == \E i \in 1..10 : Digits[i] = c
DigitVal(c) == (CHOOSE i \in 1..10 : Digits[i] = c) - 1
AllDigits(s) == \A i \in 1..Len(s) : IsDigit(s[i])

RECURSIVE DigitsOf(_)
DigitsOf(n) == IF n < 10 THEN <<Digits[n + 1]>>
               ELSE DigitsOf(n \div 10) \o <<Digits[(n % 10) + 1]>>

RECURSIVE NumOf(_)
NumOf(s) == IF s = <<>> THEN 0
            ELSE 10 * NumOf(SubSeq(s, 1, Len(s) - 1)) + DigitVal(s[Len(s)])

\* The position of the first "." of s, 0 when there is none.
DotAt(s) == IF \E i \in 1..Len(s) : s[i] = "."
            THEN CHOOSE i \in 1..Len(s) : s[i] = "." /\ \A j \in 1..(i - 1) : s[j] # "."
            ELSE 0

\* ------------------------------------------------------------------ values

V(t, n, s) == [t |-> t, n |-> n, s |-> s]
NilV == V("nil", 0, <<>>)
ChanV == V("chan", 0, <<>>)            \* a value json cannot encode
IntV(n) == V("int", n, <<>>)
Int64V(n) == V("int64", n, <<>>)
BoolV(b) == V("bool", IF b THEN 1 ELSE 0, <<>>)
F32V(tenths) == V("float32", tenths, <<>>)
F64V(tenths) == V("float64", tenths, <<>>)
StrV(s) == V("string", 0, s)

NoErr == "nil"
ErrNil == "redis: nil"                 \* GET of a key the server does not hold
ErrNet == "dial tcp: connection refused"
ErrArgs == "ERR wrong number of arguments"
ErrSyntax == "strconv: invalid syntax"
ErrMarshal == "json: unsupported type"
ErrUnmarshal == "json: invalid character"
StoreErrors == {ErrNil, ErrNet, ErrArgs, ErrSyntax}

\* strconv.Itoa / FormatInt.
Itoa(n) == IF n < 0 THEN <<"-">> \o DigitsOf(0 - n) ELSE DigitsOf(n)

\* strconv.FormatFloat(f, 'f', -1, 64) of a float held in tenths.
FormatFloat(tenths) ==
    LET a == IF tenths < 0 THEN 0 - tenths ELSE tenths
        sign == IF tenths < 0 THEN <<"-">> ELSE <<>>
    IN  IF a % 10 = 0 THEN sign \o DigitsOf(a \div 10)
        ELSE sign \o DigitsOf(a \div 10) \o <<".">> \o <<Digits[(a % 10) + 1]>>

\* strconv.Atoi / ParseInt(s, 10, 64): an optional sign, then digits only.
Atoi(s) ==
    LET signed == s # <<>> /\ s[1] \in {"-", "+"}
        body == IF signed THEN Tail(s) ELSE s
    IN  IF body = <<>> \/ ~AllDigits(body) THEN [n |-> 0, err |-> ErrSyntax]
        ELSE [n |-> IF signed /\ s[1] = "-" THEN 0 - NumOf(body) ELSE NumOf(body),
              err |-> NoErr]

\* strconv.ParseBool.
ParseBool(s) ==
    IF s \in {<<"1">>, <<"t">>, <<"T">>, <<"t", "r", "u", "e">>,
              <<"T", "R", "U", "E">>, <<"T", "r", "u", "e">>}
    THEN [n |-> 1, err |-> NoErr]
    ELSE IF s \in {<<"0">>, <<"f">>, <<"F">>, <<"f", "a", "l", "s", "e">>,
                   <<"F", "A", "L", "S", "E">>, <<"F", "a", "l", "s", "e">>}
    THEN [n |-> 0, err |-> NoErr]
    ELSE [n |-> 0, err |-> ErrSyntax]

\* strconv.ParseFloat on decimal texts: sign, digits, "." and digits, at least one
\* digit; the result in tenths (the texts of this model hold one decimal at most).
ParseFloat(s) ==
    LET signed == s # <<>> /\ s[1] \in {"-", "+"}
        body == IF signed THEN Tail(s) ELSE s
        dot == DotAt(body)
        ip == IF dot = 0 THEN body ELSE SubSeq(body, 1, dot - 1)
        fp == IF dot = 0 THEN <<>> ELSE SubSeq(body, dot + 1, Len(body))
        good == AllDigits(ip) /\ AllDigits(fp) /\ Len(ip) + Len(fp) > 0
        mag == 10 * NumOf(ip) + (IF fp = <<>> THEN 0 ELSE DigitVal(fp[1]))
    IN  IF ~good THEN [n |-> 0, err |-> ErrSyntax]
        ELSE [n |-> IF signed /\ s[1] = "-" THEN 0 - mag ELSE mag, err |-> NoErr]

\* The JSON number grammar (no exponent in this model): -? int (. digits+)?
IsJSONNumber(s) ==
    LET neg == s # <<>> /\ s[1] = "-"
        body == IF neg THEN Tail(s) ELSE s
        dot == DotAt(body)
        ip == IF dot = 0 THEN body ELSE SubSeq(body, 1, dot - 1)
        fp == IF dot = 0 THEN <<>> ELSE SubSeq(body, dot + 1, Len(body))
    IN  /\ ip # <<>> /\ AllDigits(ip)
        /\ (Len(ip) > 1 => ip[1] # "0")
        /\ (dot # 0 => (fp # <<>> /\ AllDigits(fp)))

Quote(s) == <<"\"">> \o s \o <<"\"">>
IsQuoted(s) == /\ Len(s) >= 2 /\ s[1] = "\"" /\ s[Len(s)] = "\""
               /\ \A i \in 2..(Len(s) - 1) : s[i] \notin {"\"", "\\"}

Txt_true == <<"t", "r", "u", "e">>
Txt_false == <<"f", "a", "l", "s", "e">>
Txt_null == <<"n", "u", "l", "l">>

\* ------------------------------------------------------------------- codec

\* json.Marshal, as rad.Marshal returns it: the text, or the error.
Marshal(val) ==
    CASE val.t \in {"int", "int64"} -> [text |-> Itoa(val.n), err |-> NoErr]
      [] val.t \in {"float32", "float64"} -> [text |-> FormatFloat(val.n), err |-> NoErr]
      [] val.t = "bool" -> [text |-> IF val.n = 1 THEN Txt_true ELSE Txt_false, err |-> NoErr]
      [] val.t = "string" -> [text |-> Quote(val.s), err |-> NoErr]
      [] val.t = "nil" -> [text |-> Txt_null, err |-> NoErr]
      [] OTHER -> [text |-> <<>>, err |-> ErrMarshal]

\* An UnMarshal that hands the text back undecoded.
UnMarshal_Text(text) == [val |-> StrV(text), err |-> NoErr]

\* json.Unmarshal into an interface{}: a number is a float64 whatever it was.
UnMarshal(text) ==
    IF IsJSONNumber(text) THEN [val |-> F64V(ParseFloat(text).n), err |-> NoErr]
    ELSE IF text = Txt_true THEN [val |-> BoolV(TRUE), err |-> NoErr]
    ELSE IF text = Txt_false THEN [val |-> BoolV(FALSE), err |-> NoErr]
    ELSE IF text = Txt_null THEN [val |-> NilV, err |-> NoErr]
    ELSE IF IsQuoted(text) THEN [val |-> StrV(SubSeq(text, 2, Len(text) - 1)), err |-> NoErr]
    ELSE [val |-> NilV, err |-> ErrUnmarshal]

\* What the client writes on the wire for the value of a SET: a string as it is, an
\* integer in decimal, a bool as 1 or 0, a float by FormatFloat.
WireArg(val) ==
    CASE val.t = "string" -> val.s
      [] val.t \in {"int", "int64"} -> Itoa(val.n)
      [] val.t = "bool" -> Itoa(val.n)
      [] OTHER -> FormatFloat(val.n)

\* ------------------------------------------------------------ store client

\* The client's KeepTTL: SET ... KEEPTTL.
KeepTTL == -1

Live(st, pk) == pk \in DOMAIN st

Put(f, k, v) == [x \in (DOMAIN f) \cup {k} |-> IF x = k THEN v ELSE f[x]]
Drop(f, ks) == [x \in (DOMAIN f) \ ks |-> f[x]]

\* The time-to-live SET leaves on the key: exp > 0 sets it, KeepTTL keeps the one the
\* key has, every other exp (zero, negative) sends no expiry: the key does not expire.
TtlAfterSet(st, pk, exp) ==
    IF exp > 0 THEN exp
    ELSE IF exp = KeepTTL /\ Live(st, pk) THEN st[pk].ttl
    ELSE 0

\* rad.Db.Set(ctx, pk, text, exp): the server's keys after it, and the command's error.
DbSet(st, pk, text, exp, ok) ==
    IF ~ok THEN [st |-> st, err |-> ErrNet]
    ELSE [st |-> Put(st, pk, [val |-> text, ttl |-> TtlAfterSet(st, pk, exp)]),
          err |-> NoErr]

\* rad.Db.Get(ctx, pk): the text held, or redis.Nil.
DbGet(st, pk, ok) ==
    IF ~ok THEN [val |-> <<>>, err |-> ErrNet]
    ELSE IF Live(st, pk) THEN [val |-> st[pk].val, err |-> NoErr]
    ELSE [val |-> <<>>, err |-> ErrNil]

Range(s) == {s[i] : i \in 1..Len(s)}

\* rad.Db.Del(ctx, pks...): a DEL without keys is an error of the server.
DbDel(st, pks, ok) ==
    IF ~ok THEN [st |-> st, err |-> ErrNet]
    ELSE IF pks = <<>> THEN [st |-> st, err |-> ErrArgs]
    ELSE [st |-> Drop(st, Range(pks)), err |-> NoErr]

\* rad.Db.Exists(ctx, pk).Val(): the count, 0 when the command failed.
DbExists(st, pk, ok) ==
    IF ~ok THEN 0 ELSE IF Live(st, pk) THEN 1 ELSE 0

\* ------------------------------------------------------------------ handle

\* NewDefault's prefix.
DefaultPrefix == Str_rad

NewDefault == [Prefix |-> DefaultPrefix]
New(opt) == opt

\* A handle that forgets its prefix.
PhysKey_Bare(rad, key) == key

\* A handle that uses NewDefault's prefix whatever its options say.
PhysKey_Default(rad, key) == Str_rad \o key

\* rad.Options.Prefix + key.
PhysKey(rad, key) == Options[rad].Prefix \o key

\* A loop that stops after the first key of the batch.
PhysKeys_First(rad, key) ==
    IF key = <<>> THEN <<>> ELSE <<PhysKey(rad, Head(key))>>

\* DelAny's loop: keys = append(keys, rad.Options.Prefix+v).
RECURSIVE PhysKeys(_, _)
PhysKeys(rad, key) ==
    IF key = <<>> THEN <<>>
    ELSE <<PhysKey(rad, Head(key))>> \o PhysKeys(rad, Tail(key))

NoCmd == [name |-> "none", keys |-> <<>>]
Cmd(name, pks) == [name |-> name, keys |-> pks]

\* A call as it starts: nothing sent, nothing raised, nothing returned yet.
Call(op, rad, keys, val, exp, ok) ==
    [op |-> op, rad |-> rad, keys |-> keys, val |-> val, exp |-> exp, ok |-> ok,
     cmd |-> NoCmd, ret |-> NilV, raised |-> NoErr, err |-> NoErr, sunk |-> NoErr,
     how |-> "returned"]

\* The process ends inside the call: nothing is returned.
Terminated(c, how) == [c EXCEPT !.how = how, !.ret = NilV, !.err = NoErr]

\* An Error that drops what it is given.
Error_Dropped(rad, c) == c

\* rad.Error(err): to the zap logger when there is one, log.Fatal when there is none.
Error(rad, c) ==
    IF Logger[rad] THEN [c EXCEPT !.sunk = c.raised] ELSE Terminated(c, "fatal")

\* rad.Logger.Error(err), called on the field itself: a nil *SugaredLogger is
\* dereferenced.
LoggerError(rad, c) ==
    IF Logger[rad] THEN [c EXCEPT !.sunk = c.raised] ELSE Terminated(c, "panic")

\* A write the server applied, as hist keeps it.
Write(op, rad, val, exp) ==
    [op |-> op, rad |-> rad, val |-> val, exp |-> exp, age |-> 0, del |-> "no"]

\* No call is under way: the caller has taken the result of the last one.
Idle == Call("idle", "A", <<>>, NilV, 0, TRUE)
Ready == proc = "running" /\ last = Idle

\* What a call leaves: the call as it ended, the server's keys, the history.
Out(c, st, h) == [c |-> c, st |-> st, h |-> h]
Same(c) == Out(c, store, hist)

Finish(o) ==
    /\ last' = o.c
    /\ proc' = IF o.c.how = "returned" THEN "running" ELSE o.c.how
    /\ store' = o.st
    /\ hist' = o.h
    /\ UNCHANGED <<Options, Db, Logger>>

\* --------------------------------------------------------------- set calls

\* A Set that does not pass exp on: the key is written with no expiry.
SendSet_NoExp(c, rad, key, text) ==
    LET pk == PhysKey(rad, key)
        r == DbSet(store, pk, text, 0, c.ok)
    IN  Out([c EXCEPT !.cmd = Cmd("SET", <<pk>>), !.raised = r.err, !.err = r.err],
            r.st,
            IF r.err = NoErr THEN Put(hist, pk, Write(c.op, rad, c.val, c.exp)) ELSE hist)

\* rad.Db.Set(rad.Ctx, rad.Options.Prefix+key, text, exp) and the *StatusCmd it returns.
SendSet(c, rad, key, text) ==
    LET pk == PhysKey(rad, key)
        r == DbSet(store, pk, text, c.exp, c.ok)
    IN  Out([c EXCEPT !.cmd = Cmd("SET", <<pk>>), !.raised = r.err, !.err = r.err],
            r.st,
            IF r.err = NoErr THEN Put(hist, pk, Write(c.op, rad, c.val, c.exp)) ELSE hist)

SetOut(rad, key, value, exp, ok) ==
    LET c == Call("Set", rad, <<key>>, value, exp, ok)
        m == Marshal(value)
    IN  IF m.err # NoErr
        THEN Same(Error(rad, [c EXCEPT !.raised = m.err, !.err = m.err]))
        ELSE IF ~Db[rad] THEN Same(Terminated(c, "panic"))
        ELSE SendSet(c, rad, key, m.text)

\* The typed setters hand the value to the client as it is.
SetXOut(op, rad, key, value, exp, ok) ==
    LET c == Call(op, rad, <<key>>, value, exp, ok)
    IN  IF ~Db[rad] THEN Same(Terminated(c, "panic"))
        ELSE SendSet(c, rad, key, WireArg(value))

Set(rad, key, value, exp, ok) ==
    Ready /\ Finish(SetOut(rad, key, value, exp, ok))

SetString(rad, key, value, exp, ok) ==
    Ready /\ Finish(SetXOut("SetString", rad, key, StrV(value), exp, ok))

SetInt(rad, key, value, exp, ok) ==
    Ready /\ Finish(SetXOut("SetInt", rad, key, IntV(value), exp, ok))

SetInt64(rad, key, value, exp, ok) ==
    Ready /\ Finish(SetXOut("SetInt64", rad, key, Int64V(value), exp, ok))

SetBool(rad, key, value, exp, ok) ==
    Ready /\ Finish(SetXOut("SetBool", rad, key, BoolV(value), exp, ok))

SetFloat32(rad, key, value, exp, ok) ==
    Ready /\ Finish(SetXOut("SetFloat32", rad, key, F32V(value), exp, ok))

SetFloat64(rad, key, value, exp, ok) ==
    Ready /\ Finish(SetXOut("SetFloat64", rad, key, F64V(value), exp, ok))

\* --------------------------------------------------------------- get calls

\* The reads: the call as it ends when the server holds st.
GetCall(st, rad, key, ok) ==
    LET c == Call("Get", rad, <<key>>, NilV, 0, ok)
        pk == PhysKey(rad, key)
        r == DbGet(st, pk, ok)
        d == [c EXCEPT !.cmd = Cmd("GET", <<pk>>)]
    IN  IF ~Db[rad] THEN Terminated(c, "panic")
        ELSE IF r.err # NoErr
        THEN Error(rad, [d EXCEPT !.raised = r.err, !.err = r.err])
        ELSE LET u == UnMarshal(r.val)
             IN  [d EXCEPT !.ret = u.val, !.raised = u.err, !.err = u.err]

GetStringCall(st, rad, key, ok) ==
    LET c == Call("GetString", rad, <<key>>, NilV, 0, ok)
        pk == PhysKey(rad, key)
        r == DbGet(st, pk, ok)
        d == [c EXCEPT !.cmd = Cmd("GET", <<pk>>)]
    IN  IF ~Db[rad] THEN Terminated(c, "panic")
        ELSE IF r.err # NoErr
        THEN Error(rad, [d EXCEPT !.ret = StrV(<<>>), !.raised = r.err, !.err = r.err])
        ELSE [d EXCEPT !.ret = StrV(r.val)]

\* The typed getters but GetString: the command's Int(), Int64(), Bool(), Float32(),
\* Float64() (the command's error, else the strconv parse p of its text), and on an
\* error rad.Logger.Error and the type's value for a failure.
GetXCall(op, st, rad, key, ok, p, t, failed) ==
    LET c == Call(op, rad, <<key>>, NilV, 0, ok)
        pk == PhysKey(rad, key)
        r == DbGet(st, pk, ok)
        d == [c EXCEPT !.cmd = Cmd("GET", <<pk>>)]
        e == IF r.err # NoErr THEN r.err ELSE p.err
    IN  IF ~Db[rad] THEN Terminated(c, "panic")
        ELSE IF e # NoErr
        THEN LoggerError(rad, [d EXCEPT !.ret = V(t, failed, <<>>), !.raised = e, !.err = e])
        ELSE [d EXCEPT !.ret = V(t, p.n, <<>>)]

\* The text a typed getter parses: the one the server holds at the key.
Held(st, rad, key) ==
    IF Live(st, PhysKey(rad, key)) THEN st[PhysKey(rad, key)].val ELSE <<>>

GetIntCall(st, rad, key, ok) ==
    GetXCall("GetInt", st, rad, key, ok, Atoi(Held(st, rad, key)), "int", -1)

GetInt64Call(st, rad, key, ok) ==
    GetXCall("GetInt64", st, rad, key, ok, Atoi(Held(st, rad, key)), "int64", -1)

GetBoolCall(st, rad, key, ok) ==
    GetXCall("GetBool", st, rad, key, ok, ParseBool(Held(st, rad, key)), "bool", 0)

GetFloat32Call(st, rad, key, ok) ==
    GetXCall("GetFloat32", st, rad, key, ok, ParseFloat(Held(st, rad, key)), "float32", 0)

GetFloat64Call(st, rad, key, ok) ==
    GetXCall("GetFloat64", st, rad, key, ok, ParseFloat(Held(st, rad, key)), "float64", 0)

\* GetXOrDefault: the getter's call c, then val for its error.
OrDefault(op, c, val) ==
    IF c.how # "returned" THEN [c EXCEPT !.op = op, !.val = val]
    ELSE [c EXCEPT !.op = op, !.val = val, !.err = NoErr,
                   !.ret = IF c.err # NoErr THEN val ELSE c.ret]

Get(rad, key, ok) == Ready /\ Finish(Same(GetCall(store, rad, key, ok)))
GetString(rad, key, ok) == Ready /\ Finish(Same(GetStringCall(store, rad, key, ok)))
GetInt(rad, key, ok) == Ready /\ Finish(Same(GetIntCall(store, rad, key, ok)))
GetInt64(rad, key, ok) == Ready /\ Finish(Same(GetInt64Call(store, rad, key, ok)))
GetBool(rad, key, ok) == Ready /\ Finish(Same(GetBoolCall(store, rad, key, ok)))
GetFloat32(rad, key, ok) == Ready /\ Finish(Same(GetFloat32Call(store, rad, key, ok)))
GetFloat64(rad, key, ok) == Ready /\ Finish(Same(GetFloat64Call(store, rad, key, ok)))

GetStringOrDefault(rad, key, val, ok) ==
    Ready /\ Finish(Same(OrDefault("GetStringOrDefault",
                                   GetStringCall(store, rad, key, ok), StrV(val))))

GetIntOrDefault(rad, key, val, ok) ==
    Ready /\ Finish(Same(OrDefault("GetIntOrDefault",
                                   GetIntCall(store, rad, key, ok), IntV(val))))

GetInt64OrDefault(rad, key, val, ok) ==
    Ready /\ Finish(Same(OrDefault("GetInt64OrDefault",
                                   GetInt64Call(store, rad, key, ok), Int64V(val))))

GetBoolOrDefault(rad, key, val, ok) ==
    Ready /\ Finish(Same(OrDefault("GetBoolOrDefault",
                                   GetBoolCall(store, rad, key, ok), BoolV(val))))

GetFloat32OrDefault(rad, key, val, ok) ==
    Ready /\ Finish(Same(OrDefault("GetFloat32OrDefault",
                                   GetFloat32Call(store, rad, key, ok), F32V(val))))

GetFloat64OrDefault(rad, key, val, ok) ==
    Ready /\ Finish(Same(OrDefault("GetFloat64OrDefault",
                                   GetFloat64Call(store, rad, key, ok), F64V(val))))

\* -------------------------------------------------------- delete and exist

\* The history after a DEL the server applied to pks.
Deleted(h, pks, op, rad) ==
    [x \in (DOMAIN h) \cup Range(pks) |->
        IF x \in Range(pks) THEN [Write("none", rad, NilV, 0) EXCEPT !.del = op]
        ELSE h[x]]

\* rad.Db.Del(rad.Ctx, pks...).Err(), rad.Error on an error, and the error returned.
SendDel(c, rad, pks) ==
    LET r == DbDel(store, pks, c.ok)
        d == [c EXCEPT !.cmd = Cmd("DEL", pks), !.raised = r.err, !.err = r.err]
    IN  IF r.err # NoErr THEN Same(Error(rad, d))
        ELSE Out(d, r.st, Deleted(hist, pks, c.op, rad))

DelOut(rad, key, ok) ==
    LET c == Call("Del", rad, <<key>>, NilV, 0, ok)
    IN  IF ~Db[rad] THEN Same(Terminated(c, "panic"))
        ELSE SendDel(c, rad, <<PhysKey(rad, key)>>)

DelAnyOut(rad, key, ok) ==
    LET c == Call("DelAny", rad, key, NilV, 0, ok)
    IN  IF ~Db[rad] THEN Same(Terminated(c, "panic"))
        ELSE SendDel(c, rad, PhysKeys(rad, key))

\* An Exist that looks at the command's error and not at its count.
ExistCall_NoError(st, rad, key, ok) ==
    LET c == Call("Exist", rad, <<key>>, NilV, 0, ok)
        pk == PhysKey(rad, key)
    IN  IF ~Db[rad] THEN Terminated(c, "panic")
        ELSE [c EXCEPT !.cmd = Cmd("EXISTS", <<pk>>),
                       !.raised = IF ok THEN NoErr ELSE ErrNet,
                       !.ret = BoolV(ok)]

\* Exist: true when the count EXISTS returns is 1.
ExistCall(st, rad, key, ok) ==
    LET c == Call("Exist", rad, <<key>>, NilV, 0, ok)
        pk == PhysKey(rad, key)
    IN  IF ~Db[rad] THEN Terminated(c, "panic")
        ELSE [c EXCEPT !.cmd = Cmd("EXISTS", <<pk>>),
                       !.raised = IF ok THEN NoErr ELSE ErrNet,
                       !.ret = BoolV(DbExists(st, pk, ok) = 1)]

Del(rad, key, ok) == Ready /\ Finish(DelOut(rad, key, ok))
DelAny(rad, key, ok) == Ready /\ Finish(DelAnyOut(rad, key, ok))
Exist(rad, key, ok) == Ready /\ Finish(Same(ExistCall(store, rad, key, ok)))

\* ----------------------------------------------------- configuration, time

UseRedis(rad) ==
    /\ Ready
    /\ Db' = [Db EXCEPT ![rad] = TRUE]
    /\ UNCHANGED <<Options, Logger, store, proc, last, hist>>

UseZapLogger(rad) ==
    /\ Ready
    /\ Logger' = [Logger EXCEPT ![rad] = TRUE]
    /\ UNCHANGED <<Options, Db, store, proc, last, hist>>

\* One tick of the server's clock: every time-to-live runs down, a key whose
\* time-to-live ends is gone.
Tick ==
    /\ Ready
    /\ \/ \E pk \in DOMAIN store : store[pk].ttl > 0
       \/ \E pk \in DOMAIN hist : hist[pk].age < hist[pk].exp
    /\ store' = [pk \in {x \in DOMAIN store : store[x].ttl # 1} |->
                    IF store[pk].ttl > 1 THEN [store[pk] EXCEPT !.ttl = @ - 1]
                    ELSE store[pk]]
    /\ hist' = [pk \in DOMAIN hist |->
                    IF hist[pk].age < hist[pk].exp THEN [hist[pk] EXCEPT !.age = @ + 1]
                    ELSE hist[pk]]
    /\ UNCHANGED <<Options, Db, Logger, proc, last>>

\* The caller takes the result of the call and goes on.
Return ==
    /\ proc = "running"
    /\ last # Idle
    /\ last' = Idle
    /\ UNCHANGED <<Options, Db, Logger, store, proc, hist>>

\* ------------------------------------------------------------ specification

Empty == [x \in {} |-> NilV]

\* Handle A is NewDefault(), handle B is New(Options{Prefix: p}); no client, no logger.
Init ==
    /\ \E p \in Prefixes : Options = [A |-> NewDefault, B |-> New([Prefix |-> p])]
    /\ Db = [rad \in Handles |-> FALSE]
    /\ Logger = [rad \in Handles |-> FALSE]
    /\ store = Empty
    /\ hist = Empty
    /\ proc = "running"
    /\ last = Idle

\* The arguments the callers pass.
TTLs == {-2, KeepTTL, 0} \cup (1..MaxTtl)
SetVals == {IntV(42), StrV(Str_hi), ChanV}
Batches(K) == UNION {[1..n -> K] : n \in 0..MaxBatch}

Clients(H) == \E rad \in H : UseRedis(rad)
Loggers(H) == \E rad \in H : UseZapLogger(rad)

Writers(H, K, T, O) ==
    \E rad \in H, key \in K, exp \in T, ok \in O :
        \/ \E value \in SetVals : Set(rad, key, value, exp, ok)
        \/ SetString(rad, key, Str_hi, exp, ok)

TypedSetters(H, K, T, O) ==
    \E rad \in H, key \in K, exp \in T, ok \in O :
        \/ SetInt(rad, key, 42, exp, ok)
        \/ SetInt64(rad, key, 42, exp, ok)
        \/ SetBool(rad, key, TRUE, exp, ok)
        \/ SetFloat32(rad, key, 15, exp, ok)
        \/ SetFloat64(rad, key, 15, exp, ok)

Getters(H, K, O) ==
    \E rad \in H, key \in K, ok \in O :
        \/ Get(rad, key, ok)
        \/ GetString(rad, key, ok)
        \/ GetInt(rad, key, ok)
        \/ GetInt64(rad, key, ok)
        \/ GetBool(rad, key, ok)
        \/ GetFloat32(rad, key, ok)
        \/ GetFloat64(rad, key, ok)

Defaults(H, K, O) ==
    \E rad \in H, key \in K, ok \in O :
        \/ GetStringOrDefault(rad, key, Str_k, ok)
        \/ GetIntOrDefault(rad, key, 7, ok)
        \/ GetInt64OrDefault(rad, key, 7, ok)
        \/ GetBoolOrDefault(rad, key, TRUE, ok)
        \/ GetFloat32OrDefault(rad, key, 7, ok)
        \/ GetFloat64OrDefault(rad, key, 7, ok)

Deleters(H, K, KB, O) ==
    \/ \E rad \in H, key \in K, ok \in O : Del(rad, key, ok) \/ Exist(rad, key, ok)
    \/ \E rad \in H, key \in Batches(KB), ok \in O : DelAny(rad, key, ok)

\* The whole API, on both handles, on one logical key, with keys that do not expire.
Next ==
    \/ Clients(Handles)
    \/ Loggers(Handles)
    \/ Writers(Handles, {Str_k}, {0}, BOOLEAN)
    \/ TypedSetters(Handles, {Str_k}, {0}, BOOLEAN)
    \/ Getters(Handles, {Str_k}, BOOLEAN)
    \/ Defaults(Handles, {Str_k}, BOOLEAN)
    \/ Deleters(Handles, {Str_k}, Keys, BOOLEAN)
    \/ Return

Spec == Init /\ [][Next]_vars

\* Writes, deletes and Exist through handle A on both logical keys, with keys that
\* expire and keys that do not, and writes through handle B on one key.
NextDel ==
    \/ Clients(Handles)
    \/ Loggers(Handles)
    \/ Writers({"A"}, Keys, {0} \cup (1..MaxTtl), BOOLEAN)
    \/ Writers({"B"}, {Str_k}, {0}, {TRUE})
    \/ Deleters({"A"}, Keys, Keys, BOOLEAN)
    \/ Tick
    \/ Return

SpecDel == Init /\ [][NextDel]_vars

\* Two handles on the one store: both write both logical keys, handle A also through
\* the typed setters, Del and DelAny, and handle B, which alone has a logger, reads.
NextShared ==
    \/ Clients(Handles)
    \/ Loggers({"B"})
    \/ Writers(Handles, Keys, {0}, {TRUE})
    \/ TypedSetters({"A"}, {Str_k}, {0}, {TRUE})
    \/ Deleters({"A"}, Keys, Keys, {TRUE})
    \/ Getters({"B"}, Keys, {TRUE})
    \/ Return

SpecShared == Init /\ [][NextShared]_vars

\* Handle A sets, gets and deletes both logical keys with every time-to-live, while
\* the server's clock ticks.
NextTtl ==
    \/ Clients({"A"})
    \/ Loggers({"A"})
    \/ Writers({"A"}, Keys, TTLs, BOOLEAN)
    \/ Getters({"A"}, Keys, BOOLEAN)
    \/ Deleters({"A"}, Keys, Keys, {TRUE})
    \/ Tick
    \/ Return

SpecTtl == Init /\ [][NextTtl]_vars

\* ------------------------------------------------------------------ claims

SetOps == {"Set", "SetString", "SetInt", "SetInt64", "SetBool", "SetFloat32", "SetFloat64"}
GetOps == {"Get", "GetString", "GetInt", "GetInt64", "GetBool", "GetFloat32", "GetFloat64"}
DefaultOps == {"GetStringOrDefault", "GetIntOrDefault", "GetInt64OrDefault",
               "GetBoolOrDefault", "GetFloat32OrDefault", "GetFloat64OrDefault"}
StoreOps == SetOps \cup GetOps \cup DefaultOps \cup {"Del", "DelAny", "Exist"}

\* C1: whatever command a call sends to the store, its keys are, one for one and in
\* order, the handle's configured prefix followed by the caller's logical keys (all
\* the keys of a DelAny batch); a call of the API on a handle with a client sends a
\* command unless the value of Set cannot be serialized; no call changes a prefix.
C1_PhysicalKeys ==
    /\ last.cmd # NoCmd =>
          /\ last.op \in StoreOps
          /\ Len(last.cmd.keys) = Len(last.keys)
          /\ \A i \in 1..Len(last.keys) :
                last.cmd.keys[i] = Options[last.rad].Prefix \o last.keys[i]
    /\ (last.op \in StoreOps /\ Db[last.rad] /\ last.raised # ErrMarshal) =>
          last.cmd # NoCmd
    /\ Options["A"].Prefix = Str_rad
    /\ Options["B"].Prefix \in Prefixes

\* A DelAny of two different keys through the handle made by New has been sent.
C1_Witness ==
    /\ last.op = "DelAny" /\ last.rad = "B" /\ last.raised = NoErr
    /\ last.keys = <<Str_k, Str_xk>>
    /\ last.cmd.keys = <<Options["B"].Prefix \o Str_k, Options["B"].Prefix \o Str_xk>>

\* The physical key of the one-key call last.
LastKey == Options[last.rad].Prefix \o last.keys[1]

\* C4: a GetXOrDefault on a handle with a client always returns to its caller, with
\* no error: the fallback when the getter under it failed, the stored value when it
\* did not; so also on a handle without a logger.
C4_OrDefaultAlwaysReturns ==
    (last.op \in DefaultOps /\ Db[last.rad]) =>
        /\ last.how = "returned"
        /\ last.err = NoErr
        /\ last.raised # NoErr => last.ret = last.val
        /\ last.raised = NoErr => (last.ret.t = last.val.t /\ Live(store, LastKey))

\* C5: an error that arises in a call outside the OrDefault family, on a handle with
\* a client and a logger, is returned to the caller and is passed to the logger.
C5_ReturnedAndRouted ==
    (last.op \in StoreOps \ DefaultOps /\ Logger[last.rad] /\ last.raised # NoErr) =>
        /\ last.err = last.raised
        /\ last.sunk = last.raised

\* The calls that report their error: the getters, Del and DelAny on an error of the
\* store, Set on an error of Marshal.
Reports ==
    \/ last.op \in GetOps \cup DefaultOps \cup {"Del", "DelAny"} /\ last.raised \in StoreErrors
    \/ last.op = "Set" /\ last.raised = ErrMarshal

\* C6: a call that reports an error passes it to the logger and returns when the
\* handle has a logger, and ends the process through log.Fatal when it has none; the
\* typed getters as every other call.
C6_FatalWithoutSink ==
    Reports =>
        IF Logger[last.rad] THEN last.how = "returned" /\ last.sunk = last.raised
        ELSE last.how = "fatal"

\* C7: a Set whose value cannot be serialized sends no command and leaves the store
\* as it was; the error of Marshal is reported through rad.Error (to the logger, or
\* log.Fatal on a handle without one) and, whenever the call returns, is the error
\* of the StatusCmd returned. A Set of such a value always ends so.
C7_SetMarshalFailure ==
    [][(last'.op = "Set" /\ last.op = "idle"
           /\ (last'.raised = ErrMarshal \/ last'.val = ChanV)) =>
          /\ last'.raised = ErrMarshal
          /\ last'.cmd = NoCmd
          /\ store' = store
          /\ IF Logger[last'.rad]
             THEN /\ last'.how = "returned"
                  /\ last'.sunk = ErrMarshal
                  /\ last'.err = ErrMarshal
             ELSE last'.how = "fatal"]_vars

\* A Set of a value json cannot encode has returned its error on a handle with a
\* logger, the key holding a value from before.
C7_Witness ==
    /\ last.op = "Set" /\ last.val = ChanV /\ last.how = "returned"
    /\ last.err = ErrMarshal /\ last.sunk = ErrMarshal
    /\ Live(store, LastKey)

\* C9: on a handle with a client, Exist returns true exactly when the EXISTS command
\* succeeded and the store holds prefix+key; for a key not held and for a failed
\* command it returns false, and the failure is not returned, not passed to the
\* logger, and does not end the process, logger or not.
C9_Exist ==
    (last.op = "Exist" /\ Db[last.rad]) =>
        /\ last.ret = BoolV(last.ok /\ Live(store, LastKey))
        /\ last.how = "returned" /\ proc = "running"
        /\ last.err = NoErr
        /\ last.sunk = NoErr
        /\ last.raised = (IF last.ok THEN NoErr ELSE ErrNet)

\* Exist has returned false for a key the store holds, the command having failed,
\* on a handle without a logger.
C9_Witness ==
    /\ last.op = "Exist" /\ ~last.ok /\ Live(store, LastKey)
    /\ last.ret = BoolV(FALSE) /\ ~Logger[last.rad] /\ proc = "running"

\* pk was in the batch of the last DelAny that returned without an error, and no
\* set has been applied to it since.
GoneByDelAny(pk) == pk \in DOMAIN hist /\ hist[pk].del = "DelAny"

\* C3: when DelAny(K) has returned without an error, every prefix+k of K is gone
\* from the store, whatever it held and whether it was ever set; and as long as no
\* set is applied to that key, Exist(k) returns false.
C3_DelAnyThenExist ==
    /\ (last.op = "DelAny" /\ last.how = "returned" /\ last.err = NoErr) =>
          \A i \in 1..Len(last.keys) :
              LET pk == Options[last.rad].Prefix \o last.keys[i]
              IN  GoneByDelAny(pk) /\ ~Live(store, pk)
    /\ (last.op = "Exist" /\ GoneByDelAny(LastKey)) =>
          (last.how = "returned" /\ last.ret = BoolV(FALSE))
    /\ \A pk \in DOMAIN hist : hist[pk].del = "DelAny" => ~Live(store, pk)

\* Exist has returned false for a key of a two-key DelAny, the EXISTS command having
\* succeeded, both keys still gone.
C3_Witness ==
    /\ last.op = "Exist" /\ last.ok /\ last.ret = BoolV(FALSE)
    /\ \A k \in Keys : GoneByDelAny(Options[last.rad].Prefix \o k)

\* Neither prefix is a string-prefix of the other.
Isolated(a, b) ==
    /\ ~IsPrefixOf(Options[a].Prefix, Options[b].Prefix)
    /\ ~IsPrefixOf(Options[b].Prefix, Options[a].Prefix)

\* What the reads through handle rad return for key when the server holds st.
Reads(st, rad, key) ==
    [ok \in BOOLEAN |->
        <<GetCall(st, rad, key, ok), GetStringCall(st, rad, key, ok),
          GetIntCall(st, rad, key, ok), GetInt64Call(st, rad, key, ok),
          GetBoolCall(st, rad, key, ok), GetFloat32Call(st, rad, key, ok),
          GetFloat64Call(st, rad, key, ok), ExistCall(st, rad, key, ok)>>]

\* What the server holding st has at the physical keys handle rad addresses.
Addressed(st, rad) ==
    [key \in Keys |-> IF Live(st, Options[rad].Prefix \o key)
                      THEN <<st[Options[rad].Prefix \o key]>> ELSE <<>>]

\* C10: for two handles on one store whose prefixes are not string-prefixes of one
\* another, a Set, typed set, Del or DelAny through one of them leaves every physical
\* key the other addresses as it was (not created, not overwritten, not removed), and
\* every Get, typed get and Exist through the other returns what it would have
\* returned without it.
C10_Isolation ==
    [][(last.op = "idle" /\ last'.op \in SetOps \cup {"Del", "DelAny"}) =>
          \A b \in Handles \ {last'.rad} :
              Isolated(last'.rad, b) =>
                  /\ Addressed(store', b) = Addressed(store, b)
                  /\ \A key \in Keys : Reads(store', b, key) = Reads(store, b, key)]_vars

\* Handle A has overwritten a key of its own and removed another with DelAny while
\* both keys of handle B, whose prefix is unrelated, hold values.
C10_Witness ==
    /\ Isolated("A", "B")
    /\ last.rad = "A" /\ last.op = "DelAny" /\ last.err = NoErr /\ Len(last.keys) = 2
    /\ \A key \in Keys : Live(store, Options["B"].Prefix \o key)
    /\ Db["B"]

\* The last write the server applied to the key of the call last, if the key has
\* not been deleted since.
LastWrite == IF LastKey \in DOMAIN hist THEN hist[LastKey] ELSE Write("none", "A", NilV, 0)

\* What a JSON text decodes to when the target is an interface{}: every number is a
\* float64 (held in tenths), a string, a bool and nil are themselves.
Generic(v) ==
    CASE v.t \in {"int", "int64"} -> F64V(10 * v.n)
      [] v.t \in {"float32", "float64"} -> F64V(v.n)
      [] OTHER -> v

\* Get reads, through the same handle and with a command that succeeds, a key that
\* still holds what a Set of that handle stored.
GetAfterSet ==
    /\ last.op = "Get" /\ Db[last.rad] /\ last.ok
    /\ Live(store, LastKey)
    /\ LastWrite.op = "Set" /\ LastWrite.rad = last.rad

\* C2 as stated: a Get that follows a Set(k, v, ttl) of the same handle, the key
\* neither expired, rewritten nor deleted, returns v itself and no error.
C2_RoundTripIdentity ==
    GetAfterSet => (last.how = "returned" /\ last.err = NoErr /\ last.ret = LastWrite.val)

\* C2 amended: such a Get returns no error and the JSON-generic form of v: v itself
\* when v is nil, a bool, a float64 or a string, and the float64 of the same number
\* when v is an int, an int64 or a float32.
C2_RoundTripGeneric ==
    GetAfterSet =>
        /\ last.how = "returned" /\ last.err = NoErr /\ last.sunk = NoErr
        /\ last.ret = Generic(LastWrite.val)
        /\ (LastWrite.val.t \in {"nil", "bool", "float64", "string"}) =>
              last.ret = LastWrite.val
        /\ (LastWrite.val.t \in {"int", "int64", "float32"}) =>
              (last.ret.t = "float64" /\ last.ret # LastWrite.val)

\* Get has returned the string a Set with a positive time-to-live stored, before the
\* time-to-live ran out.
C2_Witness ==
    /\ GetAfterSet /\ LastWrite.exp > 0 /\ LastWrite.val = StrV(Str_hi)
    /\ last.ret = StrV(Str_hi) /\ last.err = NoErr

\* Get reads a key whose last write is a Set of the same handle with time-to-live
\* exp, not deleted since, age ticks ago.
GetOfSet ==
    /\ last.op = "Get" /\ Db[last.rad]
    /\ LastWrite.op = "Set" /\ LastWrite.rad = last.rad

\* C8 as stated: once the ttl of Set(k, v, ttl) has elapsed, a zero or negative ttl
\* counting as elapsed at once, Get(k) fails with an error of the store.
C8_ElapsedAnyTtl ==
    (GetOfSet /\ LastWrite.age >= LastWrite.exp) =>
        (last.raised \in StoreErrors /\ last.ret = NilV)

\* C8 amended: once a positive ttl of Set(k, v, ttl) has elapsed, Get(k) fails with
\* redis.Nil (or the error of a failed command) and returns no value; a key set with
\* a zero ttl or a negative ttl other than KeepTTL never expires, and a Get of it
\* whose command succeeds returns the value.
C8_ElapsedPositiveTtl ==
    /\ (GetOfSet /\ LastWrite.exp > 0 /\ LastWrite.age >= LastWrite.exp) =>
          /\ last.raised = (IF last.ok THEN ErrNil ELSE ErrNet)
          /\ last.ret = NilV
          /\ last.how = "returned" => last.err = last.raised
    /\ (GetOfSet /\ LastWrite.exp <= 0 /\ LastWrite.exp # KeepTTL /\ last.ok) =>
          /\ Live(store, LastKey) /\ store[LastKey].ttl = 0
          /\ last.raised = NoErr /\ last.ret = Generic(LastWrite.val)

\* Get has failed with redis.Nil on a key whose positive time-to-live ran out.
C8_Witness ==
    /\ GetOfSet /\ LastWrite.exp > 0 /\ LastWrite.age >= LastWrite.exp
    /\ last.ok /\ last.err = ErrNil /\ last.how = "returned"

====
